---- MODULE Spec2Model ----
(***************************************************************************)
(* markdone: a task list kept in one markdown file with three sections     *)
(* (SELECTED, INCOMPLETE, COMPLETE).  The model follows src/src/main.rs:   *)
(* the file is a string of bytes, a line is a sequence of characters,      *)
(* and every subcommand of main is one action that loads the file,         *)
(* computes on the in-memory lines and (on success) writes them back.      *)
(*                                                                         *)
(* Characters are one-character strings.  Indexes into Vec<String> keep    *)
(* the 0-based values of the source; element i of a Vec is lines[i + 1].   *)
(* Task texts range over single-line strings: Add is not called with a     *)
(* text that holds a line terminator.                                      *)
(*                                                                         *)
(* Specifications: Spec (from no file, through Create), SpecEdited,        *)
(* SpecMisplaced and SpecCrlf (from files an editor left behind),          *)
(* SpecCodec (List alone, on one task line), SpecConcurrent (two           *)
(* processes on one path).                                                 *)
(***************************************************************************)
EXTENDS Integers, Sequences, FiniteSets, TLC

\* ---------------------------------------------------------------- bounds
\* Add is disabled once the document holds MaxTasks task lines.
MaxTasks == 3

\* Ids the id-taking subcommands are called with (one more than can exist).
Ids == 0..MaxTasks

\* Texts the Add subcommand is called with, in turn: the k-th task line of
\* a document gets Texts[k % Len(Texts)].
Texts == << <<"a">>, <<":", "*">> >>

\* ------------------------------------------------------------ characters
NL == "\n"
CR == "\r"
NUL == "\\0"

DigitChar == <<"0", "1", "2", "3", "4", "5", "6", "7", "8", "9">>

IsDigit(c) == \E d \in 1..10 : DigitChar[d] = c

DigitVal(c) == (CHOOSE d \in 1..10 : DigitChar[d] = c) - 1

\* Display for usize: decimal digits, no sign, no padding.
RECURSIVE UsizeToString(_)
UsizeToString(n) ==
  IF n < 10 THEN << DigitChar[n + 1] >>
  ELSE UsizeToString(n \div 10) \o << DigitChar[(n % 10) + 1] >>

RECURSIVE DigitsValue(_)
DigitsValue(s) ==
  IF s = << >> THEN 0
  ELSE 10 * DigitsValue(SubSeq(s, 1, Len(s) - 1)) + DigitVal(s[Len(s)])

\* str::parse::<usize>: an optional leading '+', then one or more digits.
\* The result is [ok |-> BOOLEAN, val |-> Nat].
ParseUsize(s) ==
  LET body == IF s # << >> /\ s[1] = "+" THEN Tail(s) ELSE s
  IN  IF body # << >> /\ \A i \in 1..Len(body) : IsDigit(body[i])
      THEN [ok |-> TRUE, val |-> DigitsValue(body)]
      ELSE [ok |-> FALSE, val |-> 0]

StartsWith(s, p) == Len(s) >= Len(p) /\ SubSeq(s, 1, Len(p)) = p

\* chars().skip(n)
Skip(s, n) == SubSeq(s, n + 1, Len(s))

\* take_while(|c| c != stop): the prefix before the first stop character.
TakeUntil(s, stop) ==
  LET hits == { i \in 1..Len(s) : s[i] = stop }
  IN  IF hits = {} THEN s
      ELSE SubSeq(s, 1, (CHOOSE i \in hits : \A j \in hits : i <= j) - 1)

\* skip_while(|c| c != stop): the suffix from the first stop character on.
SkipUntil(s, stop) ==
  LET hits == { i \in 1..Len(s) : s[i] = stop }
  IN  IF hits = {} THEN << >>
      ELSE SubSeq(s, CHOOSE i \in hits : \A j \in hits : i <= j, Len(s))

\* ------------------------------------------------------- string literals
Separator == <<"-", "-", "-">>
Blank == << >>
UncheckedBox == <<"-", " ", "[", " ", "]", " ">>
CheckedBox == <<"-", " ", "[", "x", "]", " ">>
Stars == <<"*", "*">>

\* format!("### {}", section.to_string().to_uppercase())
SectionHeader(section) ==
  CASE section = "Selected" ->
         <<"#", "#", "#", " ", "S", "E", "L", "E", "C", "T", "E", "D">>
    [] section = "Incomplete" ->
         <<"#", "#", "#", " ", "I", "N", "C", "O", "M", "P", "L", "E", "T", "E">>
    [] section = "Complete" ->
         <<"#", "#", "#", " ", "C", "O", "M", "P", "L", "E", "T", "E">>

TaskStatus == {"Selected", "Incomplete", "Complete"}

\* TryFrom<&String> for TaskStatus: "None" when the line is no header.
StatusOfHeader(line) ==
  IF line = SectionHeader("Selected") THEN "Selected"
  ELSE IF line = SectionHeader("Incomplete") THEN "Incomplete"
  ELSE IF line = SectionHeader("Complete") THEN "Complete"
  ELSE "None"

\* FormatTask with the blank after the colon left out.
FormatTaskNoSpace(id, task) ==
  UncheckedBox \o Stars \o UsizeToString(id) \o Stars \o <<":">> \o task

\* format!("- [ ] **{}**: {}", id, task)
FormatTask(id, task) ==
  UncheckedBox \o Stars \o UsizeToString(id) \o Stars \o <<":", " ">> \o task

\* ------------------------------------------------------------ line store
\* The content of the file is a string of bytes.  It is held split at its
\* '\n' bytes: a non-empty sequence of segments <<s1, ..., sk, rest>> stands
\* for the bytes s1 '\n' ... sk '\n' rest, where rest (possibly empty) is
\* what follows the last '\n'.  Every byte string has exactly one such form.
EmptyFile == << << >> >>

RECURSIVE ByteLen(_)
ByteLen(f) ==
  IF Len(f) = 1 THEN Len(f[1]) ELSE Len(f[1]) + 1 + ByteLen(Tail(f))

\* The first n bytes (n <= ByteLen(f)).
RECURSIVE TakeBytes(_, _)
TakeBytes(f, n) ==
  IF n <= Len(f[1]) THEN << SubSeq(f[1], 1, n) >>
  ELSE << f[1] >> \o TakeBytes(Tail(f), n - Len(f[1]) - 1)

\* The bytes after the first n (n <= ByteLen(f)).
RECURSIVE DropBytes(_, _)
DropBytes(f, n) ==
  IF n <= Len(f[1]) THEN << Skip(f[1], n) >> \o Tail(f)
  ELSE DropBytes(Tail(f), n - Len(f[1]) - 1)

\* Concatenation of two byte strings.
ConcatBytes(f, g) ==
  SubSeq(f, 1, Len(f) - 1) \o << f[Len(f)] \o g[1] >> \o Tail(g)

\* BufRead::lines: every '\n'-terminated segment is a line, with a '\r'
\* before the '\n' dropped; a non-empty rest is a last line, kept as it is.
StripCR(l) ==
  IF l # << >> /\ l[Len(l)] = CR THEN SubSeq(l, 1, Len(l) - 1) ELSE l

get_lines(f) ==
  [i \in 1..(Len(f) - 1) |-> StripCR(f[i])]
  \o (IF f[Len(f)] # << >> THEN << f[Len(f)] >> ELSE << >>)

\* for line in lines { writeln!(file, "{}", line) }: the bytes written.
\* No line holds a '\n', so each line is one terminated segment.
WriteLines(lines) == lines \o << << >> >>

\* File::set_len(n): cut to n bytes, or extend with zero bytes.
SetLen(f, n) ==
  IF n <= ByteLen(f) THEN TakeBytes(f, n)
  ELSE ConcatBytes(f, << [i \in 1..(n - ByteLen(f)) |-> NUL] >>)

\* seek(Start(0)) and write: the new bytes replace a prefix of the old
\* content; old bytes beyond the written length stay.
WriteAtStart(old, new) ==
  IF ByteLen(old) <= ByteLen(new) THEN new
  ELSE ConcatBytes(new, DropBytes(old, ByteLen(new)))

\* Commands::Add opens the file for writing and writes from offset 0.
SaveNoTruncate(old, lines) == WriteAtStart(old, WriteLines(lines))

\* The move commands call set_len(lines.len()) first.
SaveSetLen(old, lines) ==
  WriteAtStart(SetLen(old, Len(lines)), WriteLines(lines))

\* ------------------------------------------------------------ Vec<String>
\* Vec::remove(i) and Vec::insert(i, x), 0-based.
Remove(v, i) == SubSeq(v, 1, i) \o SubSeq(v, i + 2, Len(v))

Insert(v, i, x) == SubSeq(v, 1, i) \o << x >> \o SubSeq(v, i + 1, Len(v))

\* iter().position(pred) as the least 0-based index in a set of 1-based hits.
FirstHit(hits) ==
  IF hits = {} THEN -1 ELSE (CHOOSE i \in hits : \A j \in hits : i <= j) - 1

\* --------------------------------------------------------- section index
\* get_section_start: 0-based index of the first line equal to the header,
\* -1 when with_context turns the None into an error.
get_section_start(lines, section) ==
  FirstHit({ i \in 1..Len(lines) : lines[i] = SectionHeader(section) })

\* get_section_end: section_start plus the position of the first "---" in
\* lines[section_start..], -1 when there is none.
get_section_end(lines, section_start) ==
  FirstHit({ i \in (section_start + 1)..Len(lines) : lines[i] = Separator })

\* get_section_indexes: Result<(usize, usize)>.
get_section_indexes(lines, section) ==
  LET start == get_section_start(lines, section)
  IN  IF start < 0 THEN [err |-> "section_start", start |-> 0, end |-> 0]
      ELSE LET end == get_section_end(lines, start)
           IN  IF end < 0 THEN [err |-> "section_end", start |-> 0, end |-> 0]
               ELSE [err |-> "ok", start |-> start, end |-> end]

\* &lines[start..end]
Slice(lines, start, end) == SubSeq(lines, start + 1, end)

\* get_section: Result<&[String]>, the slice from the header up to (not
\* including) the separator.
get_section(lines, section) ==
  LET ix == get_section_indexes(lines, section)
  IN  IF ix.err # "ok" THEN [err |-> ix.err, section |-> << >>]
      ELSE [err |-> "ok", section |-> Slice(lines, ix.start, ix.end)]

IsTaskPrefixed(e) == StartsWith(e, UncheckedBox) \/ StartsWith(e, CheckedBox)

\* get_task_count_in_section: skip(2), then count while lines look like tasks.
get_task_count_in_section(section) ==
  LET rest == Skip(section, 2)
      stops == { i \in 1..Len(rest) : ~IsTaskPrefixed(rest[i]) }
  IN  IF stops = {} THEN Len(rest)
      ELSE (CHOOSE i \in stops : \A j \in stops : i <= j) - 1

\* get_task_idx_in_section matching the unchecked pattern only.
get_task_idx_in_sectionUncheckedOnly(section, id) ==
  FirstHit({ i \in 1..Len(section) :
     StartsWith(section[i],
                UncheckedBox \o Stars \o UsizeToString(id) \o Stars \o <<":">>) })

\* get_task_idx_in_section: Option<usize> as -1 / index.  The unchecked
\* pattern ends in "**:", the checked one in "**".
get_task_idx_in_section(section, id) ==
  FirstHit({ i \in 1..Len(section) :
     \/ StartsWith(section[i],
                   UncheckedBox \o Stars \o UsizeToString(id) \o Stars \o <<":">>)
     \/ StartsWith(section[i],
                   CheckedBox \o Stars \o UsizeToString(id) \o Stars) })

\* get_task_id / get_id: skip(8), take_while(!= '*'), parse::<usize>().
get_task_id(task) == ParseUsize(TakeUntil(Skip(task, 8), "*"))

get_id(task) == ParseUsize(TakeUntil(Skip(task, 8), "*"))

\* get_next_id looking at the unchecked task lines only.
get_next_idUncheckedOnly(lines) ==
  LET ids == { get_task_id(lines[i]).val :
                 i \in { j \in 1..Len(lines) :
                          /\ StartsWith(lines[j], UncheckedBox)
                          /\ get_task_id(lines[j]).ok } }
  IN  IF ids = {} THEN 0 ELSE (CHOOSE m \in ids : \A k \in ids : k <= m) + 1

\* get_next_id returning the largest id itself.
get_next_idNoIncrement(lines) ==
  LET ids == { get_task_id(lines[i]).val :
                 i \in { j \in 1..Len(lines) : get_task_id(lines[j]).ok } }
  IN  IF ids = {} THEN 0 ELSE CHOOSE m \in ids : \A k \in ids : k <= m

\* get_next_id: one more than the largest id any line parses to, else 0.
get_next_id(lines) ==
  LET ids == { get_task_id(lines[i]).val :
                 i \in { j \in 1..Len(lines) : get_task_id(lines[j]).ok } }
  IN  IF ids = {} THEN 0
      ELSE (CHOOSE m \in ids : \A k \in ids : k <= m) + 1

\* chars[3] = c
SetBox(task, c) == [task EXCEPT ![4] = c]

\* ------------------------------------------------------------ task codec
\* TryFrom<(String, TaskStatus)> for Task.  `completed` is true for a line
\* whose box is not 'x', as the source computes it.
TaskTryFrom(task, task_status) ==
  LET bad == [ok |-> FALSE, id |-> 0, task |-> << >>, task_status |-> task_status]
  IN  IF ~(StartsWith(task, UncheckedBox \o Stars)
           \/ StartsWith(task, CheckedBox \o Stars))
      THEN bad
      ELSE LET completed == task[4] # "x"
           IN  IF completed /\ task_status = "Complete" THEN bad
               ELSE LET id == get_id(task)
                    IN  IF ~id.ok THEN bad
                        ELSE [ok |-> TRUE, id |-> id.val,
                              task |-> Skip(SkipUntil(task, ":"), 2),
                              task_status |-> task_status]

\* get_tasks_in_sections: one pass over the lines with the closure's
\* captured `status`; a header changes it only when it is in `sections`.
RECURSIVE TasksFrom(_, _, _, _)
TasksFrom(lines, i, sections, status) ==
  IF i > Len(lines) THEN << >>
  ELSE LET s == StatusOfHeader(lines[i])
       IN  IF s # "None"
           THEN TasksFrom(lines, i + 1, sections,
                          IF s \in sections THEN s ELSE status)
           ELSE IF status # "None"
           THEN LET t == TaskTryFrom(lines[i], status)
                IN  (IF t.ok
                     THEN << [id |-> t.id, task |-> t.task,
                              task_status |-> t.task_status] >>
                     ELSE << >>)
                    \o TasksFrom(lines, i + 1, sections, status)
           ELSE TasksFrom(lines, i + 1, sections, status)

get_tasks_in_sections(lines, sections) == TasksFrom(lines, 1, sections, "None")

\* ------------------------------------------------- steps shared by moves
\* RemoveTask leaving the spacer line of a section that lost its last task.
RemoveTaskKeepSpacer(lines, task_idx, task_count) == Remove(lines, task_idx)

\* let task = lines.remove(task_idx); if task_count == 1 { lines.remove(task_idx) }
\* task_idx lies below the section's separator, so neither remove is out
\* of range.
RemoveTask(lines, task_idx, task_count) ==
  LET l1 == Remove(lines, task_idx)
  IN  IF task_count = 1 THEN Remove(l1, task_idx) ELSE l1

\* InsertTask overwriting the first task line of a section that has tasks.
InsertTaskReplace(lines, start, end, task) ==
  IF end - start = 2
  THEN Insert(Insert(lines, end, Blank), start + 2, task)
  ELSE Insert(Remove(lines, start + 2), start + 2, task)

\* InsertTask putting the task below the tasks of the section.
InsertTaskAppend(lines, start, end, task) ==
  IF end - start = 2
  THEN Insert(Insert(lines, end, Blank), start + 2, task)
  ELSE Insert(lines, end - 1, task)

\* if end - start == 2 { lines.insert(end, "") }; lines.insert(start + 2, task)
InsertTask(lines, start, end, task) ==
  LET l1 == IF end - start = 2 THEN Insert(lines, end, Blank) ELSE lines
  IN  Insert(l1, start + 2, task)

\* MarkChecked leaving the box as it is.
MarkCheckedKeep(task) == task

\* chars[3] = 'x'
MarkChecked(task) == SetBox(task, "x")

\* chars[3] = ' '
MarkUnchecked(task) == SetBox(task, " ")

\* A command that returns Err (or bails) before it opens the file for
\* writing: the file keeps its bytes.
Fail(f, err) == [err |-> err, file |-> f, id |-> 0]

Done(f, id) == [err |-> "ok", file |-> f, id |-> id]

\* --------------------------------------------------------- Commands::Add
AddCmd(f, task) ==
  LET lines == get_lines(f)
      ix == get_section_indexes(lines, "Incomplete")
  IN  IF ix.err # "ok" THEN Fail(f, ix.err)
      ELSE LET id == get_next_id(lines)
               l2 == InsertTask(lines, ix.start, ix.end, FormatTask(id, task))
           IN  Done(SaveNoTruncate(f, l2), id)

\* ------------------------------------------------------- Commands::Check
\* CheckLocate without the look into COMPLETE.
CheckLocateNoComplete(lines, id) ==
  LET none == [err |-> "not_found", task_idx |-> 0, task_count |-> 0]
      sel == get_section_indexes(lines, "Selected")
      inc == get_section_indexes(lines, "Incomplete")
  IN  IF sel.err # "ok" THEN [none EXCEPT !.err = sel.err]
      ELSE LET ss == Slice(lines, sel.start, sel.end)
               si == get_task_idx_in_section(ss, id)
           IN  IF si >= 0
               THEN [err |-> "ok", task_idx |-> si + sel.start,
                     task_count |-> get_task_count_in_section(ss)]
               ELSE IF inc.err # "ok" THEN [none EXCEPT !.err = inc.err]
               ELSE LET is == Slice(lines, inc.start, inc.end)
                        ii == get_task_idx_in_section(is, id)
                    IN  IF ii >= 0
                        THEN [err |-> "ok", task_idx |-> ii + inc.start,
                              task_count |-> get_task_count_in_section(is)]
                        ELSE none

\* The match that yields (task_idx, task_count): COMPLETE first, then
\* SELECTED, then INCOMPLETE.
CheckLocate(lines, id) ==
  LET none == [err |-> "not_found", task_idx |-> 0, task_count |-> 0]
      cs == get_section(lines, "Complete")
  IN  IF cs.err # "ok" THEN [none EXCEPT !.err = cs.err]
      ELSE IF get_task_idx_in_section(cs.section, id) >= 0
      THEN [none EXCEPT !.err = "already_checked"]
      ELSE LET sel == get_section_indexes(lines, "Selected")
           IN  IF sel.err # "ok" THEN [none EXCEPT !.err = sel.err]
               ELSE LET ss == Slice(lines, sel.start, sel.end)
                        si == get_task_idx_in_section(ss, id)
                    IN  IF si >= 0
                        THEN [err |-> "ok", task_idx |-> si + sel.start,
                              task_count |-> get_task_count_in_section(ss)]
                        ELSE LET inc == get_section_indexes(lines, "Incomplete")
                             IN  IF inc.err # "ok"
                                 THEN [none EXCEPT !.err = inc.err]
                                 ELSE LET is == Slice(lines, inc.start, inc.end)
                                          ii == get_task_idx_in_section(is, id)
                                      IN  IF ii >= 0
                                          THEN [err |-> "ok",
                                                task_idx |-> ii + inc.start,
                                                task_count |->
                                                  get_task_count_in_section(is)]
                                          ELSE none

CheckCmd(f, id) ==
  LET lines == get_lines(f)
      loc == CheckLocate(lines, id)
  IN  IF loc.err # "ok" THEN Fail(f, loc.err)
      ELSE LET task == MarkChecked(lines[loc.task_idx + 1])
               l2 == RemoveTask(lines, loc.task_idx, loc.task_count)
               ix == get_section_indexes(l2, "Complete")
           IN  IF ix.err # "ok" THEN Fail(f, ix.err)
               ELSE Done(SaveSetLen(f, InsertTask(l2, ix.start, ix.end, task)), id)

\* ------------------------------------------------------ Commands::Select
\* SelectLocate taking a task of COMPLETE as a source too.
SelectLocateAnySource(lines, id) ==
  LET none == [err |-> "not_found", task_idx |-> 0, task_count |-> 0]
      hit(st) ==
        LET ix == get_section_indexes(lines, st)
            sec == Slice(lines, ix.start, ix.end)
        IN  IF ix.err = "ok" /\ get_task_idx_in_section(sec, id) >= 0
            THEN [err |-> "ok",
                  task_idx |-> get_task_idx_in_section(sec, id) + ix.start,
                  task_count |-> get_task_count_in_section(sec)]
            ELSE none
  IN  IF hit("Incomplete").err = "ok" THEN hit("Incomplete")
      ELSE IF hit("Complete").err = "ok" THEN hit("Complete")
      ELSE hit("Selected")

\* The match that yields (task_idx, task_count): INCOMPLETE first, then
\* COMPLETE (bail "is not incomplete"), then SELECTED.
SelectLocate(lines, id) ==
  LET none == [err |-> "not_found", task_idx |-> 0, task_count |-> 0]
      inc == get_section_indexes(lines, "Incomplete")
  IN  IF inc.err # "ok" THEN [none EXCEPT !.err = inc.err]
      ELSE LET is == Slice(lines, inc.start, inc.end)
               ii == get_task_idx_in_section(is, id)
           IN  IF ii >= 0
               THEN [err |-> "ok", task_idx |-> ii + inc.start,
                     task_count |-> get_task_count_in_section(is)]
               ELSE LET cs == get_section(lines, "Complete")
                    IN  IF cs.err # "ok" THEN [none EXCEPT !.err = cs.err]
                        ELSE IF get_task_idx_in_section(cs.section, id) >= 0
                        THEN [none EXCEPT !.err = "not_incomplete"]
                        ELSE LET sel == get_section_indexes(lines, "Selected")
                             IN  IF sel.err # "ok"
                                 THEN [none EXCEPT !.err = sel.err]
                                 ELSE LET ss == Slice(lines, sel.start, sel.end)
                                          si == get_task_idx_in_section(ss, id)
                                      IN  IF si >= 0
                                          THEN [err |-> "ok",
                                                task_idx |-> si + sel.start,
                                                task_count |->
                                                  get_task_count_in_section(ss)]
                                          ELSE none

SelectCmd(f, id) ==
  LET lines == get_lines(f)
      loc == SelectLocate(lines, id)
  IN  IF loc.err # "ok" THEN Fail(f, loc.err)
      ELSE LET task == lines[loc.task_idx + 1]
               l2 == RemoveTask(lines, loc.task_idx, loc.task_count)
               ix == get_section_indexes(l2, "Selected")
           IN  IF ix.err # "ok" THEN Fail(f, ix.err)
               ELSE Done(SaveSetLen(f, InsertTask(l2, ix.start, ix.end, task)), id)

\* ----------------------------------------------------- Commands::Uncheck
\* UncheckCmd writing the lines back before the destination is located.
UncheckCmdEarlySave(f, id, select) ==
  LET new_section == IF select THEN "Selected" ELSE "Incomplete"
      lines == get_lines(f)
      cx == get_section_indexes(lines, "Complete")
  IN  IF cx.err # "ok" THEN Fail(f, cx.err)
      ELSE LET cs == Slice(lines, cx.start, cx.end)
               ci == get_task_idx_in_section(cs, id)
           IN  IF ci < 0 THEN Fail(f, "not_found_in_completed")
               ELSE LET task_idx == ci + cx.start
                        l2 == RemoveTask(lines, task_idx,
                                         get_task_count_in_section(cs))
                        ix == get_section_indexes(l2, new_section)
                    IN  IF ix.err # "ok"
                        THEN [err |-> ix.err, file |-> SaveSetLen(f, l2), id |-> 0]
                        ELSE Done(SaveSetLen(f,
                                    InsertTask(l2, ix.start, ix.end,
                                               MarkUnchecked(lines[task_idx + 1]))),
                                  id)

\* Commands::Uncheck: COMPLETE -> INCOMPLETE, or SELECTED with --select.
UncheckCmd(f, id, select) ==
  LET new_section == IF select THEN "Selected" ELSE "Incomplete"
      lines == get_lines(f)
      cx == get_section_indexes(lines, "Complete")
  IN  IF cx.err # "ok" THEN Fail(f, cx.err)
      ELSE LET cs == Slice(lines, cx.start, cx.end)
               ci == get_task_idx_in_section(cs, id)
           IN  IF ci < 0 THEN Fail(f, "not_found_in_completed")
               ELSE LET task_idx == ci + cx.start
                        task == MarkUnchecked(lines[task_idx + 1])
                        l2 == RemoveTask(lines, task_idx,
                                         get_task_count_in_section(cs))
                        ix == get_section_indexes(l2, new_section)
                    IN  IF ix.err # "ok" THEN Fail(f, ix.err)
                        ELSE Done(SaveSetLen(f,
                                    InsertTask(l2, ix.start, ix.end, task)), id)

\* ---------------------------------------------------- Commands::Deselect
DeselectCmd(f, id) ==
  LET lines == get_lines(f)
      sx == get_section_indexes(lines, "Selected")
  IN  IF sx.err # "ok" THEN Fail(f, sx.err)
      ELSE LET ss == Slice(lines, sx.start, sx.end)
               si == get_task_idx_in_section(ss, id)
           IN  IF si < 0 THEN Fail(f, "not_found")
               ELSE LET task_idx == si + sx.start
                        task == lines[task_idx + 1]
                        l2 == RemoveTask(lines, task_idx,
                                         get_task_count_in_section(ss))
                        ix == get_section_indexes(l2, "Incomplete")
                    IN  IF ix.err # "ok" THEN Fail(f, ix.err)
                        ELSE Done(SaveSetLen(f,
                                    InsertTask(l2, ix.start, ix.end, task)), id)

\* ------------------------------------------------------ Commands::Create
\* b"### SELECTED\n\n---\n\n### INCOMPLETE\n\n---\n\n### COMPLETE\n\n---\n"
Skeleton ==
  << SectionHeader("Selected"), << >>, Separator, << >>,
     SectionHeader("Incomplete"), << >>, Separator, << >>,
     SectionHeader("Complete"), << >>, Separator, << >> >>

\* -------------------------------------------------------- Commands::List
\* ListOptions: the four flags of the subcommand.
ListOptions == [all : BOOLEAN, selected : BOOLEAN,
                incomplete : BOOLEAN, complete : BOOLEAN]

\* ListSections without the rule that no flag means all.
ListSectionsNoDefault(options) ==
  (IF options.selected \/ options.all THEN <<"Selected">> ELSE << >>)
  \o (IF options.incomplete \/ options.all THEN <<"Incomplete">> ELSE << >>)
  \o (IF options.complete \/ options.all THEN <<"Complete">> ELSE << >>)

\* The `sections` vector Commands::List builds from the flags.
ListSections(options) ==
  LET list_all == options.all
                  \/ ~(options.complete \/ options.incomplete \/ options.selected)
  IN  (IF options.selected \/ list_all THEN <<"Selected">> ELSE << >>)
      \o (IF options.incomplete \/ list_all THEN <<"Incomplete">> ELSE << >>)
      \o (IF options.complete \/ list_all THEN <<"Complete">> ELSE << >>)

Range(q) == { q[i] : i \in 1..Len(q) }

\* The tasks Commands::List prints, in order.
ListCmd(f, options) ==
  get_tasks_in_sections(get_lines(f), Range(ListSections(options)))

\* ================================================================ state
\* exists: whether the task file is present at `path`
\* file:   its bytes (see the line store)
\* last:   the invocation whose process has run main and not yet exited:
\*         subcommand, arguments, and what it returned (err, the id Add
\*         reports, the tasks List prints); cmd = "none" between invocations
\* prev:   the bytes the file held when the invocation in `last` started
\*         (what its get_lines read); equal to file between invocations
\* added:  how many invocations of Add have succeeded so far
\* running: for each of two processes started side by side on the same path,
\*         how far its main has come (pc), its subcommand and arguments,
\*         the lines it holds in memory, and what it returned; the commands
\*         below, run one at a time, leave it alone
VARIABLES exists, file, last, prev, added, running

vars == <<exists, file, last, prev, added, running>>

NoOptions == [all |-> FALSE, selected |-> FALSE,
              incomplete |-> FALSE, complete |-> FALSE]

Invocation(cmd, id, text, select, options, err, newid, tasks) ==
  [cmd |-> cmd, id |-> id, text |-> text, select |-> select,
   options |-> options, err |-> err, newid |-> newid, tasks |-> tasks]

Procs == {1, 2}

NoProcess ==
  [pc |-> "idle", cmd |-> "none", id |-> 0, text |-> << >>, select |-> FALSE,
   lines |-> << >>, err |-> "ok", newid |-> 0, alone |-> TRUE, first |-> FALSE]

NotRunning == [p \in Procs |-> NoProcess]

\* No file, nothing invoked yet.
Init ==
  /\ exists = FALSE
  /\ file = EmptyFile
  /\ last = Invocation("none", 0, << >>, FALSE, NoOptions, "ok", 0, << >>)
  /\ prev = EmptyFile
  /\ added = 0
  /\ running = NotRunning

Idle == last.cmd = "none"

\* get_lines(&path)?: the outcome of a command on a path that cannot be
\* opened for reading.
ReadError(f) == [err |-> "read", file |-> f, id |-> 0]

TaskLineCount(lines) ==
  Cardinality({ i \in 1..Len(lines) : IsTaskPrefixed(lines[i]) })

\* The text the next Add is called with.
NextText == Texts[(TaskLineCount(get_lines(file)) % Len(Texts)) + 1]

\* Create writing the skeleton whether or not the path exists.
CreateOverwrite ==
  /\ Idle
  /\ prev' = file
  /\ exists' = TRUE
  /\ file' = Skeleton
  /\ last' = Invocation("Create", 0, << >>, FALSE, NoOptions, "ok", 0, << >>)
  /\ UNCHANGED <<added, running>>

Create ==
  /\ Idle
  /\ prev' = file
  /\ UNCHANGED <<added, running>>
  /\ IF exists
     THEN /\ last' = Invocation("Create", 0, << >>, FALSE, NoOptions,
                                "already_exists", 0, << >>)
          /\ UNCHANGED <<exists, file>>
     ELSE /\ exists' = TRUE
          /\ file' = Skeleton
          /\ last' = Invocation("Create", 0, << >>, FALSE, NoOptions,
                                "ok", 0, << >>)

\* The document grows by Add alone; Add is taken while it holds fewer than
\* MaxTasks task lines.
Add(task) ==
  /\ Idle
  /\ TaskLineCount(get_lines(file)) < MaxTasks
  /\ LET r == IF exists THEN AddCmd(file, task) ELSE ReadError(file)
     IN  /\ file' = r.file
         /\ last' = Invocation("Add", 0, task, FALSE, NoOptions,
                               r.err, r.id, << >>)
         /\ added' = IF r.err = "ok" THEN added + 1 ELSE added
  /\ prev' = file
  /\ UNCHANGED <<exists, running>>

Check(id) ==
  /\ Idle
  /\ LET r == IF exists THEN CheckCmd(file, id) ELSE ReadError(file)
     IN  /\ file' = r.file
         /\ last' = Invocation("Check", id, << >>, FALSE, NoOptions,
                               r.err, 0, << >>)
  /\ prev' = file
  /\ UNCHANGED <<exists, added, running>>

Select(id) ==
  /\ Idle
  /\ LET r == IF exists THEN SelectCmd(file, id) ELSE ReadError(file)
     IN  /\ file' = r.file
         /\ last' = Invocation("Select", id, << >>, FALSE, NoOptions,
                               r.err, 0, << >>)
  /\ prev' = file
  /\ UNCHANGED <<exists, added, running>>

Uncheck(id, select) ==
  /\ Idle
  /\ LET r == IF exists THEN UncheckCmd(file, id, select) ELSE ReadError(file)
     IN  /\ file' = r.file
         /\ last' = Invocation("Uncheck", id, << >>, select, NoOptions,
                               r.err, 0, << >>)
  /\ prev' = file
  /\ UNCHANGED <<exists, added, running>>

Deselect(id) ==
  /\ Idle
  /\ LET r == IF exists THEN DeselectCmd(file, id) ELSE ReadError(file)
     IN  /\ file' = r.file
         /\ last' = Invocation("Deselect", id, << >>, FALSE, NoOptions,
                               r.err, 0, << >>)
  /\ prev' = file
  /\ UNCHANGED <<exists, added, running>>

List(options) ==
  /\ Idle
  /\ last' = IF exists
             THEN Invocation("List", 0, << >>, FALSE, options,
                             "ok", 0, ListCmd(file, options))
             ELSE Invocation("List", 0, << >>, FALSE, options,
                             "read", 0, << >>)
  /\ prev' = file
  /\ UNCHANGED <<exists, file, added, running>>

\* main returns; one invocation runs at a time.
Exit ==
  /\ ~Idle
  /\ last' = Invocation("none", 0, << >>, FALSE, NoOptions, "ok", 0, << >>)
  /\ prev' = file
  /\ UNCHANGED <<exists, file, added, running>>

Next ==
  \/ Create
  \/ \E task \in { NextText } : Add(task)
  \/ \E id \in Ids : Check(id)
  \/ \E id \in Ids : Select(id)
  \/ \E id \in Ids, select \in BOOLEAN : Uncheck(id, select)
  \/ \E id \in Ids : Deselect(id)
  \/ \E options \in ListOptions : List(options)
  \/ Exit

Spec == Init /\ [][Next]_vars

\* ================================================= the document as read
\* What a reader of the markdown file sees, stated without the commands'
\* index arithmetic: a line lies inside section S when the nearest header
\* above it is S's and no separator stands in between.
Doc == get_lines(file)

IsTaskLine(l) == IsTaskPrefixed(l)

\* The id written between the ** pairs of a task line.
IdOfLine(l) == DigitsValue(TakeUntil(Skip(l, 8), "*"))

\* The description written after "**<id>**: ".
TextOfLine(l) ==
  Skip(l, Len(UncheckedBox) + 2 + Len(TakeUntil(Skip(l, 8), "*")) + 2 + 2)

\* For every line the section it lies inside ("None": outside all three).
RECURSIVE SectionsFrom(_, _, _)
SectionsFrom(lines, i, cur) ==
  IF i > Len(lines) THEN << >>
  ELSE LET h == StatusOfHeader(lines[i])
       IN  IF h # "None" THEN << "None" >> \o SectionsFrom(lines, i + 1, h)
           ELSE IF lines[i] = Separator
           THEN << "None" >> \o SectionsFrom(lines, i + 1, "None")
           ELSE << cur >> \o SectionsFrom(lines, i + 1, cur)

SectionOfLine(lines) == SectionsFrom(lines, 1, "None")

\* The tasks a reader sees, top to bottom: id, text, marker and section.
RECURSIVE ReadFrom(_, _, _)
ReadFrom(lines, i, cur) ==
  IF i > Len(lines) THEN << >>
  ELSE LET h == StatusOfHeader(lines[i])
       IN  IF h # "None" THEN ReadFrom(lines, i + 1, h)
           ELSE IF lines[i] = Separator THEN ReadFrom(lines, i + 1, "None")
           ELSE IF IsTaskLine(lines[i])
           THEN << [id |-> IdOfLine(lines[i]), text |-> TextOfLine(lines[i]),
                    checked |-> StartsWith(lines[i], CheckedBox),
                    section |-> cur] >>
                \o ReadFrom(lines, i + 1, cur)
           ELSE ReadFrom(lines, i + 1, cur)

ReadTasks(lines) == ReadFrom(lines, 1, "None")

Tasks == ReadTasks(Doc)

\* The document the invocation in `last` started from.
DocBefore == get_lines(prev)

TasksBefore == ReadTasks(DocBefore)

Ran(cmd) == last.cmd = cmd /\ last.err # "read"

Succeeded(cmd) == last.cmd = cmd /\ last.err = "ok"

\* ------------------------------------------------------------------- C1
\* C1: in every reachable document, every task line inside COMPLETE carries
\* the checked marker "- [x]" and every task line inside SELECTED or
\* INCOMPLETE carries the unchecked marker "- [ ]".
C1_MarkerMatchesSection ==
  LET ts == Tasks
  IN  \A k \in 1..Len(ts) :
        /\ ts[k].section = "Complete" => ts[k].checked
        /\ ts[k].section \in {"Selected", "Incomplete"} => ~ts[k].checked

\* A task was checked while others sit unchecked in SELECTED and INCOMPLETE.
C1_Witness ==
  LET ts == Tasks
  IN  /\ Succeeded("Check")
      /\ \A st \in TaskStatus : \E k \in 1..Len(ts) : ts[k].section = st

\* ------------------------------------------------------------------- C2
\* C2: in every reachable document each task id occurs on exactly one task
\* line, and every task line lies inside one of the three sections (a line
\* lies inside at most one).
C2_UniqueIdsPartition ==
  LET ts == Tasks
  IN  /\ \A j, k \in 1..Len(ts) : ts[j].id = ts[k].id => j = k
      /\ \A k \in 1..Len(ts) : ts[k].section \in TaskStatus

\* Ids 0, 1 and 2 allocated, the three tasks spread over the three sections.
C2_Witness ==
  LET ts == Tasks
  IN  /\ { ts[k].id : k \in 1..Len(ts) } = {0, 1, 2}
      /\ { ts[k].section : k \in 1..Len(ts) } = TaskStatus

\* ------------------------------------------------------------------- C3
IdSet(ts) == { ts[k].id : k \in 1..Len(ts) }

MaxOf(S) == CHOOSE m \in S : \A k \in S : k <= m

\* The statuses a List invocation with these flags asks for.
FilterOf(options) ==
  LET everything == options.all
        \/ ~(options.selected \/ options.incomplete \/ options.complete)
  IN  { st \in TaskStatus :
          \/ everything
          \/ st = "Selected" /\ options.selected
          \/ st = "Incomplete" /\ options.incomplete
          \/ st = "Complete" /\ options.complete }

\* "- [ ] **<id>**: <text>"
CanonicalUnchecked(id, text) ==
  <<"-", " ", "[", " ", "]", " ", "*", "*">> \o UsizeToString(id)
  \o <<"*", "*", ":", " ">> \o text

\* C3: a successful Add(text) on a document whose ids have maximum m reports
\* id m + 1 (0 for a document without tasks), stores the line
\* "- [ ] **<id>**: <text>" inside INCOMPLETE, and a List run on the
\* resulting file with any filter containing Incomplete returns a task with
\* that id, that text and status Incomplete.
C3_AddAllocatesStoresLists ==
  Succeeded("Add") =>
    LET before == IdSet(TasksBefore)
        lines == Doc
        sec == SectionOfLine(lines)
        id == last.newid
    IN  /\ id = IF before = {} THEN 0 ELSE MaxOf(before) + 1
        /\ \E i \in 1..Len(lines) :
             /\ lines[i] = CanonicalUnchecked(id, last.text)
             /\ sec[i] = "Incomplete"
        /\ \A options \in ListOptions :
             "Incomplete" \in FilterOf(options) =>
               LET out == ListCmd(file, options)
               IN  \E k \in 1..Len(out) :
                     out[k] = [id |-> id, task |-> last.text,
                               task_status |-> "Incomplete"]

\* Add reported id 2 while the task with the largest id, 1, sat in COMPLETE.
C3_Witness ==
  LET ts == Tasks
  IN  /\ Succeeded("Add")
      /\ last.newid = 2
      /\ \E k \in 1..Len(ts) : ts[k].id = 1 /\ ts[k].section = "Complete"

\* ------------------------------------------------------------------- C4
StatusOf(ts, id) ==
  IF \E k \in 1..Len(ts) : ts[k].id = id
  THEN (CHOOSE t \in Range(ts) : t.id = id).section
  ELSE "None"

Edge(cmd, select, from, to) ==
  \/ cmd = "Select" /\ from = "Incomplete" /\ to = "Selected"
  \/ cmd = "Deselect" /\ from = "Selected" /\ to = "Incomplete"
  \/ cmd = "Check" /\ from \in {"Incomplete", "Selected"} /\ to = "Complete"
  \/ cmd = "Uncheck" /\ from = "Complete"
       /\ to = (IF select THEN "Selected" ELSE "Incomplete")

\* C4: across every invocation the section of every task either stays what
\* it was, or the invocation succeeded, named that task, and the change is
\* one of the five edges Incomplete-Select->Selected,
\* Selected-Deselect->Incomplete, Incomplete-Check->Complete,
\* Selected-Check->Complete, Complete-Uncheck->(Incomplete | Selected as
\* the caller chose).
C4_StatusEdges ==
  LET before == TasksBefore
      after == Tasks
  IN  \A id \in IdSet(before) :
        \/ StatusOf(after, id) = StatusOf(before, id)
        \/ /\ last.err = "ok"
           /\ last.id = id
           /\ Edge(last.cmd, last.select,
                   StatusOf(before, id), StatusOf(after, id))

\* Uncheck with the select flag took a task to SELECTED while another task
\* stayed where it was.
C4_Witness ==
  LET ts == Tasks
  IN  /\ Succeeded("Uncheck")
      /\ last.select
      /\ StatusOf(TasksBefore, last.id) = "Complete"
      /\ StatusOf(ts, last.id) = "Selected"
      /\ Len(ts) >= 2

\* ------------------------------------------------------------------- C5
Destination(inv) ==
  CASE inv.cmd = "Add" -> "Incomplete"
    [] inv.cmd = "Check" -> "Complete"
    [] inv.cmd = "Select" -> "Selected"
    [] inv.cmd = "Deselect" -> "Incomplete"
    [] inv.cmd = "Uncheck" -> IF inv.select THEN "Selected" ELSE "Incomplete"

Subject(inv) == IF inv.cmd = "Add" THEN inv.newid ELSE inv.id

Mutating == {"Add", "Check", "Select", "Deselect", "Uncheck"}

\* C5: after every successful Add, Check, Uncheck, Select or Deselect the
\* task that was added or moved is the first task of its destination
\* section, above every other task of that section.
C5_InsertedOnTop ==
  (last.cmd \in Mutating /\ last.err = "ok") =>
    LET ts == Tasks
        there == { k \in 1..Len(ts) : ts[k].section = Destination(last) }
    IN  /\ there # {}
        /\ ts[CHOOSE k \in there : \A j \in there : k <= j].id = Subject(last)

\* A task unchecked back into INCOMPLETE stands above a task already there.
C5_Witness ==
  LET ts == Tasks
  IN  /\ Succeeded("Uncheck")
      /\ ~last.select
      /\ Cardinality({ k \in 1..Len(ts) : ts[k].section = "Incomplete" }) >= 2

\* ------------------------------------------------------------------- C6
\* C6: Check(id) on a task that is inside COMPLETE fails with the "already
\* checked" error, not with "not found", and the file keeps its bytes.
C6_CheckTwice ==
  (Ran("Check") /\ StatusOf(TasksBefore, last.id) = "Complete") =>
    /\ last.err = "already_checked"
    /\ file = prev

\* Check was invoked on a task inside COMPLETE, with another task around.
C6_Witness ==
  /\ Ran("Check")
  /\ StatusOf(TasksBefore, last.id) = "Complete"
  /\ Len(TasksBefore) >= 2

\* ------------------------------------------------------------------- C7
\* Documents as a user's editor may leave them: a well-formed document with
\* a task in SELECTED and one in COMPLETE, as it is or with one of its three
\* header lines or its last separator deleted.
WellFormed(sel, inc, com) ==
  LET body(ts) == IF ts = << >> THEN << Blank >> ELSE << Blank >> \o ts \o << Blank >>
  IN  << SectionHeader("Selected") >> \o body(sel) \o << Separator, Blank >>
      \o << SectionHeader("Incomplete") >> \o body(inc) \o << Separator, Blank >>
      \o << SectionHeader("Complete") >> \o body(com) \o << Separator >>

EditedDocuments ==
  LET t0 == SetBox(FormatTask(0, Texts[1]), "x")
      t1 == FormatTask(1, Texts[2])
      base == WellFormed(<< t1 >>, << >>, << t0 >>)
      cut == { k \in 1..Len(base) :
                 StatusOfHeader(base[k]) # "None" \/ k = Len(base) }
  IN  { base } \cup { Remove(base, k - 1) : k \in cut }

\* The task file exists and holds an edited document.
InitEdited ==
  /\ exists = TRUE
  /\ file \in { WriteLines(d) : d \in EditedDocuments }
  /\ last = Invocation("none", 0, << >>, FALSE, NoOptions, "ok", 0, << >>)
  /\ prev = file
  /\ added = 0
  /\ running = NotRunning

SpecEdited == InitEdited /\ [][Next]_vars

\* C7: every invocation of Add, Check, Uncheck, Select or Deselect that ends
\* in an error leaves the file with the bytes it had before the invocation.
C7_ErrorLeavesFile ==
  (last.cmd \in Mutating /\ last.err # "ok") => file = prev

\* Uncheck found its task inside COMPLETE, removed it from the in-memory
\* lines, and then failed to locate the destination section.
C7_Witness ==
  LET lines == DocBefore
      cx == get_section_indexes(lines, "Complete")
  IN  /\ last.cmd = "Uncheck"
      /\ last.err \in {"section_start", "section_end"}
      /\ cx.err = "ok"
      /\ get_task_idx_in_section(Slice(lines, cx.start, cx.end), last.id) >= 0

\* ------------------------------------------------------------------- C8
\* What List has to return for a set of statuses: the tasks residing in
\* those sections, SELECTED first, then INCOMPLETE, then COMPLETE, each
\* group top to bottom, each task with the status of its section.
Listed(ts, statuses) ==
  LET row(t) == [id |-> t.id, task |-> t.text, task_status |-> t.section]
      InSel(t) == t.section = "Selected" /\ "Selected" \in statuses
      InInc(t) == t.section = "Incomplete" /\ "Incomplete" \in statuses
      InCom(t) == t.section = "Complete" /\ "Complete" \in statuses
      all == SelectSeq(ts, InSel) \o SelectSeq(ts, InInc) \o SelectSeq(ts, InCom)
  IN  [k \in 1..Len(all) |-> row(all[k])]

\* C8: List with a filter that is a proper subset of the three statuses
\* returns exactly the tasks whose section is in the filter, each with the
\* status of its section.
C8_FilterExact ==
  (Succeeded("List") /\ FilterOf(last.options) # TaskStatus) =>
    last.tasks = Listed(Tasks, FilterOf(last.options))

\* ------------------------------------------------------------------- C9
\* C9: List with the full filter (all three flags, --all, or no flag)
\* returns every task exactly once, SELECTED tasks first, then INCOMPLETE,
\* then COMPLETE, each group top to bottom and each task with the status of
\* its section; List leaves the file as it was.
C9_ListAll ==
  (Succeeded("List") /\ FilterOf(last.options) = TaskStatus) =>
    /\ last.tasks = Listed(Tasks, TaskStatus)
    /\ Len(last.tasks) = Len(Tasks)
    /\ file = prev

\* List without any flag on a document with tasks in all three sections.
C9_Witness ==
  /\ Succeeded("List")
  /\ last.options = NoOptions
  /\ { last.tasks[k].task_status : k \in 1..Len(last.tasks) } = TaskStatus

\* ------------------------------------------------------------------ C10
\* C10: Select on a task that is inside SELECTED or COMPLETE is rejected
\* with an error and leaves the file as it was.
C10_SelectOnlyIncomplete ==
  (Ran("Select")
   /\ StatusOf(TasksBefore, last.id) \in {"Selected", "Complete"}) =>
    /\ last.err # "ok"
    /\ file = prev

\* ------------------------------------------------------------------ C11
\* The errors whose message is "could not find task with id ...".
TaskNotFoundErrors == {"not_found", "not_found_in_completed"}

\* The statuses from which the command must not move a task.
Forbidden(cmd, st) ==
  \/ cmd = "Check" /\ st = "Complete"
  \/ cmd = "Select" /\ st = "Complete"
  \/ cmd = "Uncheck" /\ st \in {"Selected", "Incomplete"}
  \/ cmd = "Deselect" /\ st \in {"Incomplete", "Complete"}

\* C11: Check, Uncheck, Select and Deselect report the task-not-found error
\* exactly when no section holds a task with the id; when the id exists and
\* its status forbids the operation, the invocation fails with another
\* error than task-not-found.
C11_NotFoundIffAbsent ==
  (last.cmd \in {"Check", "Uncheck", "Select", "Deselect"}
   /\ last.err # "read") =>
    LET st == StatusOf(TasksBefore, last.id)
    IN  /\ (last.err \in TaskNotFoundErrors) <=> (st = "None")
        /\ Forbidden(last.cmd, st) =>
             (last.err # "ok" /\ last.err \notin TaskNotFoundErrors)

\* ------------------------------------------------------------------ C12
\* The task lines lying inside section st, top to bottom.
RECURSIVE TaskLinesFrom(_, _, _, _)
TaskLinesFrom(lines, sec, i, st) ==
  IF i > Len(lines) THEN << >>
  ELSE (IF sec[i] = st /\ IsTaskLine(lines[i]) THEN << lines[i] >> ELSE << >>)
       \o TaskLinesFrom(lines, sec, i + 1, st)

TaskLinesIn(lines, st) == TaskLinesFrom(lines, SectionOfLine(lines), 1, st)

\* C12: every document reachable from the Create skeleton is laid out
\* canonically: the headers SELECTED, INCOMPLETE, COMPLETE once each in that
\* order; a section without tasks is header, blank, separator; a section
\* with n >= 1 tasks is header, blank, the n task lines, blank, separator;
\* one blank line stands between a separator and the next header.
C12_CanonicalLayout ==
  exists =>
    LET lines == Doc
    IN  lines = WellFormed(TaskLinesIn(lines, "Selected"),
                           TaskLinesIn(lines, "Incomplete"),
                           TaskLinesIn(lines, "Complete"))

\* Deselect took the only task out of SELECTED, leaving that section empty
\* beside an INCOMPLETE section with two tasks.
C12_Witness ==
  LET lines == Doc
  IN  /\ Succeeded("Deselect")
      /\ TaskLinesIn(lines, "Selected") = << >>
      /\ Len(TaskLinesIn(lines, "Incomplete")) = 2
      /\ Len(TaskLinesIn(lines, "Complete")) = 1

\* ------------------------------------------------------------------ C13
\* The statuses from which the command moves a task.
Permitted(cmd, st) ==
  \/ cmd \in {"Select", "Check"} /\ st = "Incomplete"
  \/ cmd \in {"Deselect", "Check"} /\ st = "Selected"
  \/ cmd = "Uncheck" /\ st = "Complete"

\* C13: on every document reachable from the Create skeleton, Add succeeds,
\* and Select or Check of a task in INCOMPLETE, Deselect or Check of a task
\* in SELECTED, and Uncheck of a task in COMPLETE (towards INCOMPLETE and
\* towards SELECTED) succeed and leave the task in the destination section;
\* so from every status a next status is always within reach.
C13_PermittedSucceeds ==
  /\ Ran("Add") => last.err = "ok"
  /\ (/\ last.cmd \in {"Check", "Uncheck", "Select", "Deselect"}
      /\ last.err # "read"
      /\ Permitted(last.cmd, StatusOf(TasksBefore, last.id))) =>
       /\ last.err = "ok"
       /\ StatusOf(Tasks, last.id) = Destination(last)

\* Uncheck took the only task of COMPLETE back to INCOMPLETE while the two
\* other tasks were in SELECTED.
C13_Witness ==
  LET before == TasksBefore
  IN  /\ Ran("Uncheck")
      /\ ~last.select
      /\ StatusOf(before, last.id) = "Complete"
      /\ Cardinality({ k \in 1..Len(before) : before[k].section = "Selected" }) = 2

\* ------------------------------------------------------------------ C14
Moves == {"Check", "Uncheck", "Select", "Deselect"}

\* C14: starting from the Create skeleton, the k-th successful Add reports
\* id k - 1, whatever Check, Uncheck, Select and Deselect invocations ran in
\* between, and no such invocation, successful or failing, changes the set
\* of ids in the document.
C14_KthAddGetsKMinusOne ==
  /\ Succeeded("Add") => last.newid = added - 1
  /\ last.cmd \in Moves => IdSet(Tasks) = IdSet(TasksBefore)

\* The third Add ran after the task with the largest id had been checked
\* and the other one selected.
C14_Witness ==
  LET before == TasksBefore
  IN  /\ Succeeded("Add")
      /\ added = 3
      /\ StatusOf(before, 1) = "Complete"
      /\ StatusOf(before, 0) = "Selected"

\* ------------------------------------------------------------------ C15
\* "### SELECTED", "", "---", "", "### INCOMPLETE", "", "---", "",
\* "### COMPLETE", "", "---"
ElevenLines ==
  << <<"#", "#", "#", " ", "S", "E", "L", "E", "C", "T", "E", "D">>,
     << >>, <<"-", "-", "-">>, << >>,
     <<"#", "#", "#", " ", "I", "N", "C", "O", "M", "P", "L", "E", "T", "E">>,
     << >>, <<"-", "-", "-">>, << >>,
     <<"#", "#", "#", " ", "C", "O", "M", "P", "L", "E", "T", "E">>,
     << >>, <<"-", "-", "-">> >>

\* C15: Create on a path that does not exist leaves a file holding exactly
\* the eleven skeleton lines, each ended by a newline; Create on a path that
\* exists fails with the already-exists error and the file keeps the bytes
\* it had, whatever they are.
C15_CreateSkeletonOrRefuse ==
  last.cmd = "Create" =>
    IF prev = EmptyFile
    THEN /\ last.err = "ok"
         /\ exists
         /\ get_lines(file) = ElevenLines
         /\ file = WriteLines(ElevenLines)
    ELSE /\ last.err = "already_exists"
         /\ file = prev

\* Create was invoked on a file that holds three tasks.
C15_Witness ==
  /\ last.cmd = "Create"
  /\ last.err = "already_exists"
  /\ Len(TasksBefore) = 3

\* ------------------------------------------------------------------ C16
\* The lines lying inside section st (between its header and its
\* separator), top to bottom.
RECURSIVE LinesFrom(_, _, _, _)
LinesFrom(lines, sec, i, st) ==
  IF i > Len(lines) THEN << >>
  ELSE (IF sec[i] = st THEN << lines[i] >> ELSE << >>)
       \o LinesFrom(lines, sec, i + 1, st)

LinesInside(lines, st) == LinesFrom(lines, SectionOfLine(lines), 1, st)

\* The tasks of ts other than the one with this id, in their order.
RECURSIVE Without(_, _)
Without(ts, id) ==
  IF ts = << >> THEN << >>
  ELSE (IF Head(ts).id = id THEN << >> ELSE << Head(ts) >>)
       \o Without(Tail(ts), id)

TextOf(ts, id) == (CHOOSE t \in Range(ts) : t.id = id).text

\* C16: a successful Check, Uncheck, Select or Deselect of task t keeps t's
\* id and text, keeps id, text, marker and section of every other task and
\* the order the other tasks stand in, and keeps every section that is
\* neither t's source nor its destination line for line; a successful Add
\* keeps SELECTED and COMPLETE line for line and the task lines of
\* INCOMPLETE in their order below the new one; no invocation of any
\* command takes a task out of the document.
C16_Frame ==
  LET before == TasksBefore
      after == Tasks
      linesBefore == DocBefore
      linesAfter == Doc
  IN  /\ (last.cmd \in Moves /\ last.err = "ok") =>
           LET src == StatusOf(before, last.id)
               dst == Destination(last)
           IN  /\ Len(after) = Len(before)
               /\ StatusOf(after, last.id) # "None"
               /\ TextOf(after, last.id) = TextOf(before, last.id)
               /\ Without(after, last.id) = Without(before, last.id)
               /\ \A st \in TaskStatus \ {src, dst} :
                    LinesInside(linesAfter, st) = LinesInside(linesBefore, st)
      /\ Succeeded("Add") =>
           /\ \A st \in {"Selected", "Complete"} :
                LinesInside(linesAfter, st) = LinesInside(linesBefore, st)
           /\ Without(after, last.newid) = before
           /\ Tail(TaskLinesIn(linesAfter, "Incomplete"))
                = TaskLinesIn(linesBefore, "Incomplete")
      /\ \A k \in 1..Len(before) :
           \E j \in 1..Len(after) :
             after[j].id = before[k].id /\ after[j].text = before[k].text

\* The middle one of three tasks in INCOMPLETE was checked.
C16_Witness ==
  LET before == TasksBefore
  IN  /\ Succeeded("Check")
      /\ Len(before) = 3
      /\ \A k \in 1..3 : before[k].section = "Incomplete"
      /\ before[2].id = last.id

\* ------------------------------------------------------------------ C17
\* Documents as a user's editor may leave them: well-formed, task 1 in
\* SELECTED or in INCOMPLETE and task 0 in COMPLETE, with at least one of
\* the two markers not the one of its section.
MisplacedDocuments ==
  LET t1(b) == SetBox(FormatTask(1, Texts[2]), b)
      t0(b) == SetBox(FormatTask(0, Texts[1]), b)
      boxes == { <<b1, b0>> \in {" ", "x"} \X {" ", "x"} : b1 = "x" \/ b0 = " " }
  IN  { WellFormed(<< t1(b[1]) >>, << >>, << t0(b[2]) >>) : b \in boxes }
      \cup { WellFormed(<< >>, << t1(b[1]) >>, << t0(b[2]) >>) : b \in boxes }

\* The task file exists and holds such a document.
InitMisplaced ==
  /\ exists = TRUE
  /\ file \in { WriteLines(d) : d \in MisplacedDocuments }
  /\ last = Invocation("none", 0, << >>, FALSE, NoOptions, "ok", 0, << >>)
  /\ prev = file
  /\ added = 0
  /\ running = NotRunning

SpecMisplaced == InitMisplaced /\ [][Next]_vars

\* A checked task line inside SELECTED or INCOMPLETE, or an unchecked one
\* inside COMPLETE.
Mismatch(ts) ==
  \E k \in 1..Len(ts) :
    \/ ts[k].checked /\ ts[k].section \in {"Selected", "Incomplete"}
    \/ ~ts[k].checked /\ ts[k].section = "Complete"

\* C17: List on a document that holds a checked task line inside SELECTED
\* or INCOMPLETE, or an unchecked task line inside COMPLETE, ends in an
\* error (it neither returns the task under its section's status nor
\* leaves it out).
C17_MismatchFailsRead ==
  (last.cmd = "List" /\ last.err # "read" /\ Mismatch(TasksBefore)) =>
    last.err # "ok"

\* ------------------------------------------------------------------ C18
\* The task codec on its own: the file holds a well-formed document with a
\* single task line, drawn from lines of the shape
\*   box "**" <id characters> "**" <delimiter> <text>
\* and only List, which decodes every task line, is invoked.
MaxCodecId == 11

CodecIds == 0..MaxCodecId

CodecTexts ==
  { << >>, <<"a">>, <<":">>, <<"*">>, <<":", "*">>, <<" ", "a">> }

\* What stands between the ** pairs: the decimal form of an id, or other
\* characters that str::parse::<usize> takes for a number.
CodecIdStrings ==
  { UsizeToString(id) : id \in CodecIds } \cup { <<"+", "5">>, <<"0", "5">> }

\* What stands between the closing ** and the text.
CodecDelims == { <<":", " ">>, <<":">>, <<" ", ":", " ">> }

CodecLines ==
  { UncheckedBox \o Stars \o ids \o Stars \o delim \o text :
      ids \in CodecIdStrings, delim \in CodecDelims, text \in CodecTexts }

CodecDocuments ==
  { WellFormed(<< >>, << line >>, << >>) : line \in CodecLines }
  \cup { WellFormed(<< >>, << >>, << SetBox(line, "x") >>) : line \in CodecLines }

InitCodec ==
  /\ exists = TRUE
  /\ file \in { WriteLines(d) : d \in CodecDocuments }
  /\ last = Invocation("none", 0, << >>, FALSE, NoOptions, "ok", 0, << >>)
  /\ prev = file
  /\ added = 0
  /\ running = NotRunning

NextList ==
  \/ \E options \in ListOptions : List(options)
  \/ Exit

SpecCodec == InitCodec /\ [][NextList]_vars

\* The canonical line of a decoded task: "- [ ] **<id>**: <text>", with the
\* box checked for a task of status Complete.
Encode(t) ==
  LET line == CanonicalUnchecked(t.id, t.task)
  IN  IF t.task_status = "Complete" THEN [line EXCEPT ![4] = "x"] ELSE line

\* The only task line of the document.
TheTaskLine(lines) == lines[CHOOSE i \in 1..Len(lines) : IsTaskLine(lines[i])]

\* C18: a line produced for a task with id and text (the text may be empty
\* or hold ':' or '*') decodes to that id and that text; and every line
\* that decodes as a task re-encodes, from the decoded id and text, to the
\* same line character for character.
C18_RoundTrip ==
  (Succeeded("List") /\ FilterOf(last.options) = TaskStatus) =>
    LET line == TheTaskLine(Doc)
        out == last.tasks
    IN  /\ \A id \in CodecIds, text \in CodecTexts :
             [line EXCEPT ![4] = " "] = CanonicalUnchecked(id, text) =>
               /\ Len(out) = 1
               /\ out[1].id = id
               /\ out[1].task = text
        /\ \A k \in 1..Len(out) : Encode(out[k]) = line

\* The first half of C18 alone.
C18_EncodeDecode ==
  (Succeeded("List") /\ FilterOf(last.options) = TaskStatus) =>
    LET line == TheTaskLine(Doc)
        out == last.tasks
    IN  \A id \in CodecIds, text \in CodecTexts :
          [line EXCEPT ![4] = " "] = CanonicalUnchecked(id, text) =>
            /\ Len(out) = 1
            /\ out[1].id = id
            /\ out[1].task = text

\* ------------------------------------------------------------------ C19
\* Documents saved by an editor that ends lines with "\r\n": task 1 in
\* SELECTED or INCOMPLETE, task 0 in COMPLETE, and up to two empty lines
\* after the last separator.
CrlfDocuments ==
  LET t1 == FormatTask(1, Texts[2])
      t0 == SetBox(FormatTask(0, Texts[1]), "x")
      docs == { WellFormed(<< t1 >>, << >>, << t0 >>),
                WellFormed(<< >>, << t1 >>, << t0 >>) }
      tails == { << >>, << Blank >>, << Blank, Blank >> }
  IN  { d \o t : d \in docs, t \in tails }

\* The bytes of a document whose lines each end in "\r\n".
WriteCrlf(lines) == [i \in 1..Len(lines) |-> lines[i] \o << CR >>] \o << << >> >>

InitCrlf ==
  /\ exists = TRUE
  /\ file \in { WriteCrlf(d) : d \in CrlfDocuments }
  /\ last = Invocation("none", 0, << >>, FALSE, NoOptions, "ok", 0, << >>)
  /\ prev = file
  /\ added = 0
  /\ running = NotRunning

SpecCrlf == InitCrlf /\ [][Next]_vars

CountIn(ts, st, except) ==
  Cardinality({ k \in 1..Len(ts) : ts[k].section = st /\ ts[k].id # except })

\* How many lines the invocation in `last` computes from the lines it read:
\* a move takes the task's line out (with the spacer, when it was the only
\* task of its section); the task's line goes into the destination (with a
\* spacer, when no other task is there).
ComputedLen ==
  LET before == TasksBefore
      moved == IF last.cmd = "Add" THEN -1 ELSE last.id
      src == StatusOf(before, moved)
      out == IF last.cmd = "Add" THEN 0
             ELSE IF CountIn(before, src, moved) = 0 THEN 2 ELSE 1
      in == IF CountIn(before, Destination(last), moved) = 0 THEN 2 ELSE 1
  IN  Len(DocBefore) - out + in

\* C19: after every successful Add, Check, Uncheck, Select or Deselect the
\* file holds exactly the computed lines, each followed by one newline, and
\* no byte of the previous content after them, whether the previous content
\* was shorter or longer than the new one.
C19_FullReplace ==
  (last.cmd \in Mutating /\ last.err = "ok") =>
    /\ file = WriteLines(Doc)
    /\ Len(Doc) = ComputedLen

\* C19 for the four move commands alone.
C19_MovesReplace ==
  (last.cmd \in Moves /\ last.err = "ok") =>
    /\ file = WriteLines(Doc)
    /\ Len(Doc) = ComputedLen

\* ================================================= two processes at once
\* Two invocations of main started on the same path.  Nothing in main locks
\* the file, so between the get_lines of one process and its
\* OpenOptions::open ... writeln! the other process may read or write.  A
\* process takes two steps: Begin (get_lines and the computation on the
\* lines, up to the point where the file is opened for writing, or the
\* error that ends it) and Finish (set_len where the command calls it, and
\* the write from offset 0).
ConcurrentDocuments ==
  LET t(id, k) == FormatTask(id, Texts[k])
  IN  { WellFormed(<< >>, << >>, << >>),
        WellFormed(<< >>, << t(0, 1) >>, << >>),
        WellFormed(<< t(1, 2) >>, << t(2, 1) >>, << SetBox(t(0, 1), "x") >>) }

ConcurrentInvocations ==
  { [cmd |-> "Add", id |-> 0, text |-> text, select |-> FALSE] :
      text \in Range(Texts) }
  \cup { [cmd |-> cmd, id |-> id, text |-> << >>, select |-> FALSE] :
           cmd \in {"Check", "Select", "Deselect", "Uncheck"}, id \in Ids }
  \cup { [cmd |-> "Uncheck", id |-> id, text |-> << >>, select |-> TRUE] :
           id \in Ids }

\* match args.command
Cmd(f, inv) ==
  CASE inv.cmd = "Add" -> AddCmd(f, inv.text)
    [] inv.cmd = "Check" -> CheckCmd(f, inv.id)
    [] inv.cmd = "Select" -> SelectCmd(f, inv.id)
    [] inv.cmd = "Deselect" -> DeselectCmd(f, inv.id)
    [] inv.cmd = "Uncheck" -> UncheckCmd(f, inv.id, inv.select)

\* Computed returning the lines as they were read.
ComputedAsRead(f, inv) == get_lines(f)

\* The lines the process holds when it reaches its save.  The commands
\* above save them over the file they were read from; on these documents
\* (written by the program, no '\r') that file then holds these lines and
\* nothing else, so get_lines gives them back.
Computed(f, inv) == get_lines(Cmd(f, inv).file)

\* The save of the command: Add writes from offset 0, the moves call
\* set_len(lines.len()) first.
Save(old, cmd, lines) ==
  IF cmd = "Add" THEN SaveNoTruncate(old, lines) ELSE SaveSetLen(old, lines)

Other(p) == CHOOSE q \in Procs : q # p

InitConcurrent ==
  /\ exists = TRUE
  /\ file \in { WriteLines(d) : d \in ConcurrentDocuments }
  /\ last = Invocation("none", 0, << >>, FALSE, NoOptions, "ok", 0, << >>)
  /\ prev = file
  /\ added = 0
  /\ running = NotRunning

\* get_lines and the computation; an error ends the process here.
\* alone: the other process is not between its get_lines and its save;
\* first: the other process has not started.
Begin(p, inv) ==
  /\ running[p].pc = "idle"
  /\ LET r == Cmd(file, inv)
     IN  running' = [running EXCEPT ![p] =
           [pc |-> IF r.err = "ok" THEN "loaded" ELSE "exited",
            cmd |-> inv.cmd, id |-> inv.id, text |-> inv.text,
            select |-> inv.select,
            lines |-> IF r.err = "ok" THEN Computed(file, inv) ELSE << >>,
            err |-> r.err, newid |-> r.id,
            alone |-> running[Other(p)].pc # "loaded",
            first |-> running[Other(p)].pc = "idle"]]
  /\ UNCHANGED <<exists, file, last, prev, added>>

\* OpenOptions::new().write(true).open(path), the write, and the return.
Finish(p) ==
  /\ running[p].pc = "loaded"
  /\ file' = Save(file, running[p].cmd, running[p].lines)
  /\ running' = [running EXCEPT ![p].pc = "exited"]
  /\ UNCHANGED <<exists, last, prev, added>>

NextConcurrent ==
  \/ \E p \in Procs, inv \in ConcurrentInvocations : Begin(p, inv)
  \/ \E p \in Procs : Finish(p)

SpecConcurrent == InitConcurrent /\ [][NextConcurrent]_vars

\* ------------------------------------------------------------------ C20
BothExited == \A p \in Procs : running[p].pc = "exited"

\* One process was between its get_lines and its save when the other read
\* the file.
Overlapped == \E p \in Procs : ~running[p].alone

\* The file and the two results are those of process a running to its end
\* and process b running after it, from the file both started on.
SerialOutcome(a, b) ==
  LET ra == Cmd(prev, running[a])
      rb == Cmd(ra.file, running[b])
  IN  /\ file = rb.file
      /\ running[a].err = ra.err /\ running[a].newid = ra.id
      /\ running[b].err = rb.err /\ running[b].newid = rb.id

====
